---- MODULE Spec2Model ----
(***************************************************************************)
(* Iris classification inference service (mlops-demo/src/app.py and        *)
(* mlops-demo/src/infer_schema.py).                                        *)
(*                                                                         *)
(* The process starts with the Service State globals model and             *)
(* model_version empty, runs startup_event once (which calls               *)
(* load_model_from_mlflow, statement by statement below), and then serves  *)
(* GET /, GET /health, GET /contract and POST /predict.  Every handler is  *)
(* an async function without an await, so the event loop runs it as one    *)
(* step.                                                                   *)
(*                                                                         *)
(* Numbers: feature values are in tenths (51 is 5.1), probabilities are in *)
(* hundredths (95 is 0.95).  Strings that the code slices are sequences of *)
(* one-character strings.                                                  *)
(***************************************************************************)
EXTENDS Integers, Sequences, FiniteSets, TLC

\* ------------------------------------------------------------------ bounds
\* Number of distinct runs the tracking store may hold for the experiment.
MaxRuns == 2
\* Length of a run identifier (MLflow uses 32 hexadecimal characters).
RunIdLen == 32
\* The model's class-index function returns an index in -1 .. MaxIndex.
MaxIndex == 3
\* A request reaches the model handle while the log holds fewer than
\* MaxLogged records written by predict.
MaxLogged == 1

\* ------------------------------------------------------- program constants
\* run_id[:7]
ShortIdLen == 7
\* Field(..., ge=0, le=10), in tenths
FeatureMin == 0
FeatureMax == 100
\* Field(..., ge=0, le=1) on confidence, in hundredths
ConfidenceMin == 0
ConfidenceMax == 100

VARIABLES
    pc,             \* position of the process: boot, a line of the resolver, serving, aborted
    model,          \* app.py global model
    model_version,  \* app.py global model_version
    run_id,         \* local of load_model_from_mlflow
    load_runs,      \* how many times load_model_from_mlflow has been entered
    calls,          \* the calls made to the mlflow collaborator, in order
    log,            \* the records written with logger, in order
    resp            \* the response of the request handled last, not yet sent

vars == <<pc, model, model_version, run_id, load_runs, calls, log, resp>>

\* ------------------------------------------------------------------ values
None == [tag |-> "None"]
Str(chars) == [tag |-> "str", chars |-> chars]

Min(a, b) == IF a < b THEN a ELSE b

\* Python s[:n]
Prefix(s, n) == SubSeq(s, 1, Min(n, Len(s)))

Hex == <<"0", "1", "2", "3", "4", "5", "6", "7",
         "8", "9", "a", "b", "c", "d", "e", "f">>

\* The identifier of the k-th run of the store: RunIdLen hexadecimal
\* characters.  Two identifiers differ inside and beyond the first seven
\* characters.
RunId(k) == [i \in 1..RunIdLen |-> Hex[((k * i + k) % 16) + 1]]

RunIds == {RunId(k) : k \in 1..MaxRuns}

\* A run record of the tracking store.
RunRecords == [run_id : RunIds, start_time : 1..MaxRuns]

\* The contents an experiment can have: runs with distinct identifiers and
\* distinct start times.
Experiments ==
    {rs \in SUBSET RunRecords :
        \A a, b \in rs : a # b => a.run_id # b.run_id /\ a.start_time # b.start_time}

\* f"models:/{model_name}/latest" and f"runs:/{run_id}/model"
RegistryUri == [scheme |-> "models", name |-> "iris_classifier", ref |-> Str(<<"l", "a", "t", "e", "s", "t">>)]
RunUri(rid) == [scheme |-> "runs", name |-> "model", ref |-> Str(rid)]

\* The object mlflow.sklearn.load_model returns for a URI.
Loaded(uri) == [tag |-> "model", uri |-> uri]

\* mlflow.search_runs(order_by=["start_time DESC"], max_results=n): the runs
\* of the experiment, most recent first, cut to n rows.
RECURSIVE SortedDesc(_)
SortedDesc(rs) ==
    IF rs = {} THEN <<>>
    ELSE LET top == CHOOSE r \in rs : \A o \in rs : o.start_time <= r.start_time
         IN  <<top>> \o SortedDesc(rs \ {top})

\* search_runs ordered by start_time ascending.
RECURSIVE SortedAsc(_)
SortedAsc(rs) ==
    IF rs = {} THEN <<>>
    ELSE LET first == CHOOSE r \in rs : \A o \in rs : o.start_time >= r.start_time
         IN  <<first>> \o SortedAsc(rs \ {first})

search_runs_Asc(rs, max_results) == Prefix(SortedAsc(rs), max_results)

search_runs(rs, max_results) == Prefix(SortedDesc(rs), max_results)

\* The outcome of a call: it raises, or it returns a value.
Raises == [tag |-> "raises"]
Returns(v) == [tag |-> "returns", val |-> v]

Entry(level, msg) == [level |-> level, msg |-> msg]
Call(fn, arg, result) == [fn |-> fn, arg |-> arg, result |-> result]

NoResponse == [endpoint |-> "none"]

\* ------------------------------------------------------------------- Init
Init ==
    /\ pc = "boot"
    /\ model = None
    /\ model_version = None
    /\ run_id = None
    /\ load_runs = 0
    /\ calls = <<>>
    /\ log = <<>>
    /\ resp = NoResponse

\* ------------------------------------------------------- startup, resolver
\* startup_event without its except clause: the failure ends the process.
StartupOnError_Abort == "aborted"

\* startup_event's except clause: the failure is logged and swallowed, the
\* service goes on to serve.
StartupOnError == "serving"

\* An exception leaves load_model_from_mlflow through its outer except
\* clause (logged, re-raised) and reaches startup_event's except clause.
Raise ==
    /\ log' = log \o <<Entry("error", "load_failed"), Entry("error", "startup_failed")>>
    /\ pc' = StartupOnError
    /\ run_id' = None

\* os.getenv(name, default) for the value the environment holds (None when
\* the variable is not set).
getenv(value, default) == IF value = None THEN default ELSE value

\* The environment of the process: MLFLOW_TRACKING_URI is not set.
MLFLOW_TRACKING_URI == None

\* startup_event up to the call of load_model_from_mlflow and the first log
\* record of that function.  mlflow.set_tracking_uri is called outside the
\* try: when it raises, startup_event raises, the startup of the application
\* fails and uvicorn.run ends the process without serving a request.
startup_event ==
    /\ pc = "boot"
    /\ LET mlflow_tracking_uri == getenv(MLFLOW_TRACKING_URI, Str("mlruns")) IN
       \E outcome \in {Returns(None), Raises} :
        /\ calls' = Append(calls, Call("set_tracking_uri", mlflow_tracking_uri, outcome))
        /\ IF outcome.tag = "returns"
           THEN /\ pc' = "load_registry"
                /\ load_runs' = load_runs + 1
                /\ log' = log \o <<Entry("info", "starting"), Entry("info", "tracking_uri"),
                                   Entry("info", "registry_loading")>>
           ELSE /\ pc' = "aborted"
                /\ load_runs' = load_runs
                /\ log' = log \o <<Entry("info", "starting")>>
    /\ UNCHANGED <<model, model_version, run_id, resp>>

\* LoadRegistry without the fallback: a failed registry load is final.
LoadRegistry_NoFallback ==
    /\ pc = "load_registry"
    /\ \E ok \in BOOLEAN :
        /\ calls' = Append(calls, Call("load_model", RegistryUri, ok))
        /\ IF ok
           THEN /\ model' = Loaded(RegistryUri)
                /\ pc' = "set_latest"
                /\ UNCHANGED <<log, run_id>>
           ELSE /\ Raise
                /\ UNCHANGED model
    /\ UNCHANGED <<model_version, load_runs, resp>>

\* model = mlflow.sklearn.load_model("models:/iris_classifier/latest")
LoadRegistry ==
    /\ pc = "load_registry"
    /\ \E ok \in BOOLEAN :
        /\ calls' = Append(calls, Call("load_model", RegistryUri, ok))
        /\ IF ok
           THEN /\ model' = Loaded(RegistryUri)
                /\ pc' = "set_latest"
                /\ UNCHANGED log
           ELSE /\ log' = log \o <<Entry("warning", "registry_failed"), Entry("info", "fallback")>>
                /\ pc' = "get_experiment"
                /\ UNCHANGED model
    /\ UNCHANGED <<model_version, run_id, load_runs, resp>>

\* model_version = "latest", then the function returns.
SetLatest ==
    /\ pc = "set_latest"
    /\ model_version' = RegistryUri.ref
    /\ log' = log \o <<Entry("info", "registry_loaded"), Entry("info", "ready")>>
    /\ pc' = "serving"
    /\ UNCHANGED <<model, run_id, load_runs, calls, resp>>

\* experiment = mlflow.get_experiment_by_name(...): the call raises, or
\* returns None (which raises), or returns the experiment.
GetExperiment ==
    /\ pc = "get_experiment"
    /\ \E outcome \in {"found", "none", "raises"} :
        /\ calls' = Append(calls, Call("get_experiment_by_name", "iris-classification", outcome))
        /\ IF outcome = "found"
           THEN pc' = "search_runs" /\ UNCHANGED <<log, run_id>>
           ELSE Raise
    /\ UNCHANGED <<model, model_version, load_runs, resp>>

\* runs = mlflow.search_runs(...): the call raises, or returns no row (which
\* raises), or run_id = runs.iloc[0]["run_id"].
SearchRuns ==
    /\ pc = "search_runs"
    /\ \/ /\ calls' = Append(calls, Call("search_runs", {}, Raises))
          /\ Raise
       \/ \E rs \in Experiments :
            LET runs == search_runs(rs, 1) IN
            /\ calls' = Append(calls, Call("search_runs", rs, Returns(runs)))
            /\ IF Len(runs) = 0
               THEN Raise
               ELSE /\ run_id' = Str(runs[1].run_id)
                    /\ log' = log \o <<Entry("info", "run_loading")>>
                    /\ pc' = "load_run"
    /\ UNCHANGED <<model, model_version, load_runs, resp>>

\* model = mlflow.sklearn.load_model(f"runs:/{run_id}/model")
LoadRun ==
    /\ pc = "load_run"
    /\ \E ok \in BOOLEAN :
        /\ calls' = Append(calls, Call("load_model", RunUri(run_id.chars), ok))
        /\ IF ok
           THEN /\ model' = Loaded(RunUri(run_id.chars))
                /\ pc' = "set_run_version"
                /\ UNCHANGED <<log, run_id>>
           ELSE /\ Raise
                /\ UNCHANGED model
    /\ UNCHANGED <<model_version, load_runs, resp>>

\* SetRunVersion without the assignment of model_version.
SetRunVersion_Forgets ==
    /\ pc = "set_run_version"
    /\ log' = log \o <<Entry("info", "run_loaded"), Entry("info", "ready")>>
    /\ pc' = "serving"
    /\ run_id' = None
    /\ UNCHANGED <<model, model_version, load_runs, calls, resp>>

\* SetRunVersion with the whole run identifier as model_version.
SetRunVersion_FullId ==
    /\ pc = "set_run_version"
    /\ model_version' = run_id
    /\ log' = log \o <<Entry("info", "run_loaded"), Entry("info", "ready")>>
    /\ pc' = "serving"
    /\ run_id' = None
    /\ UNCHANGED <<model, load_runs, calls, resp>>

\* model_version = run_id[:7], then the function returns.
SetRunVersion ==
    /\ pc = "set_run_version"
    /\ model_version' = Str(Prefix(run_id.chars, ShortIdLen))
    /\ log' = log \o <<Entry("info", "run_loaded"), Entry("info", "ready")>>
    /\ pc' = "serving"
    /\ run_id' = None
    /\ UNCHANGED <<model, load_runs, calls, resp>>

load_model_from_mlflow ==
    \/ LoadRegistry
    \/ SetLatest
    \/ GetExperiment
    \/ SearchRuns
    \/ LoadRun
    \/ SetRunVersion

\* ------------------------------------------------------- request contract
Fields == {"sepal_length", "sepal_width", "petal_length", "petal_width"}

\* A JSON value of one field of the request body: the key is absent, or the
\* value is a number, a string that reads as a number, another string, true
\* (kind bool, read as 1.0), a number literal beyond the float range such as
\* 1e999 (kind inf, read as infinity), or an integer literal with more
\* digits than json.loads converts (kind huge).
Raw(kind, num) == [kind |-> kind, num |-> num]

FeatureNums == {FeatureMin - 1, FeatureMin, FeatureMax, FeatureMax + 1}

RawValues ==
    {Raw("absent", 0), Raw("text", 0), Raw("numstr", 35),
     Raw("bool", 10), Raw("inf", 0), Raw("huge", 0)}
        \cup {Raw("num", v) : v \in FeatureNums}

\* A request body: {} (no "features" key) or {"features": {...}}.
EmptyBody == [present |-> FALSE, features |-> [f \in Fields |-> Raw("absent", 0)]]

Bodies == {EmptyBody} \cup {[present |-> TRUE, features |-> fs] : fs \in [Fields -> RawValues]}

\* validate_positive, run on a value that passed the Field constraints.
validate_positive(v) == IF v < 0 THEN {"value_error"} ELSE {}

\* IrisFeatures with gt=0 in place of ge=0.
IrisFeatures_Gt(raw) ==
    IF raw.kind = "absent" THEN {"missing"}
    ELSE IF raw.kind = "huge" THEN {"float_type"}
    ELSE IF raw.kind = "text" THEN {"float_parsing"}
    ELSE IF raw.kind = "inf" THEN {"less_than_equal"}
    ELSE IF raw.num <= FeatureMin THEN {"greater_than_equal"}
    ELSE IF raw.num > FeatureMax THEN {"less_than_equal"}
    ELSE validate_positive(raw.num)

\* Validation of one float field: a required field (...), read as a float
\* (a numeric string and a boolean are accepted; an integer too long to be a
\* float is not a valid number, another string does not parse), then ge=0
\* and le=10, then the field validator.
IrisFeatures(raw) ==
    IF raw.kind = "absent" THEN {"missing"}
    ELSE IF raw.kind = "huge" THEN {"float_type"}
    ELSE IF raw.kind = "text" THEN {"float_parsing"}
    ELSE IF raw.kind = "inf" THEN {"less_than_equal"}
    ELSE IF raw.num < FeatureMin THEN {"greater_than_equal"}
    ELSE IF raw.num > FeatureMax THEN {"less_than_equal"}
    ELSE validate_positive(raw.num)

\* The body of the request read with json.loads, before validation: an
\* integer literal that is too long raises, and the answer is 400.
json_loads(body) ==
    IF body.present /\ \E f \in Fields : body.features[f].kind = "huge"
    THEN Raises
    ELSE Returns(body)

\* The 422 answer rendered as JSON: each error carries the input it
\* rejected, and a float that is not finite cannot be rendered; the
\* ValueError is answered 500.
RenderErrors(body, errors) ==
    IF body.present /\ \E f \in Fields : body.features[f].kind = "inf"
    THEN Raises
    ELSE Returns(errors)

\* Validation of the request body: the set of (location, error type) pairs.
InferenceRequest(body) ==
    IF ~body.present THEN {<<"features", "missing">>}
    ELSE {le \in Fields \X {"missing", "float_type", "float_parsing", "greater_than_equal",
                            "less_than_equal", "value_error"} :
            le[2] \in IrisFeatures(body.features[le[1]])}

\* ----------------------------------------------------------- model handle
\* What model.predict(X)[0] can do: raise, or return a number, in tenths: a
\* whole class index -1 .. MaxIndex, or 1.7.
PredictOutcomes == {Raises} \cup {Returns(10 * i) : i \in -1..MaxIndex} \cup {Returns(17)}

\* Python int(x) on a number given in tenths: truncation towards zero.
int(x) == IF x >= 0 THEN x \div 10 ELSE -((-x) \div 10)

\* What model.predict_proba(X)[0] can do: raise, or return a vector.  The
\* vectors: well-formed three-class ones, a four-class one and one whose
\* entries are not probabilities.
ProbVectors ==
    {<<100, 0, 0>>, <<10, 20, 70>>, <<70, 20, 10>>, <<25, 25, 25, 25>>, <<120, -20, 0>>}

ProbaOutcomes == {Raises} \cup {Returns(v) : v \in ProbVectors}

\* SPECIES_MAP keyed from 1.
SPECIES_MAP_OneBased == (1 :> "setosa") @@ (2 :> "versicolor") @@ (3 :> "virginica")

SPECIES_MAP == (0 :> "setosa") @@ (1 :> "versicolor") @@ (2 :> "virginica")

\* dict.get(key, default)
Get(map, key, default) == IF key \in DOMAIN map THEN map[key] ELSE default

\* The largest entry of a vector.
MaxOf(vec) == CHOOSE x \in {vec[i] : i \in 1..Len(vec)} : \A i \in 1..Len(vec) : vec[i] <= x

\* max(probabilities) in place of probabilities[prediction].
IndexOf_Max(vec, i) ==
    IF i >= 0 /\ i < Len(vec) THEN Returns(MaxOf(vec))
    ELSE IF i < 0 /\ -i <= Len(vec) THEN Returns(MaxOf(vec))
    ELSE Raises

\* probabilities[prediction] on a numpy vector: indices -n .. n-1 are valid,
\* a negative one counts from the end, any other raises IndexError.
IndexOf(vec, i) ==
    IF i >= 0 /\ i < Len(vec) THEN Returns(vec[i + 1])
    ELSE IF i < 0 /\ -i <= Len(vec) THEN Returns(vec[Len(vec) + i + 1])
    ELSE Raises

\* InferenceResponse(...): confidence has ge=0, le=1 and model_version is a
\* str; a violation raises.
InferenceResponse(prediction, prediction_label, confidence, version) ==
    IF confidence < ConfidenceMin \/ confidence > ConfidenceMax \/ version = None
    THEN Raises
    ELSE Returns([prediction |-> prediction, prediction_label |-> prediction_label,
                  confidence |-> confidence, model_version |-> version])

\* The try block of predict with one more attempt after a failure of
\* model.predict.
Inference_Retry(out, pr) ==
    IF out.tag = "raises"
    THEN [status |-> 500, body |-> None, predict_calls |-> 2, proba_calls |-> 0,
          logged |-> <<Entry("error", "prediction_error")>>]
    ELSE IF pr.tag = "raises"
    THEN [status |-> 500, body |-> None, predict_calls |-> 1, proba_calls |-> 1,
          logged |-> <<Entry("error", "prediction_error")>>]
    ELSE LET prediction == int(out.val)
             confidence == IndexOf(pr.val, prediction)
             prediction_label == Get(SPECIES_MAP, prediction, "unknown")
         IN  IF confidence.tag = "raises"
             THEN [status |-> 500, body |-> None, predict_calls |-> 1, proba_calls |-> 1,
                   logged |-> <<Entry("error", "prediction_error")>>]
             ELSE LET r == InferenceResponse(prediction, prediction_label,
                                             confidence.val, model_version)
                  IN  IF r.tag = "raises"
                      THEN [status |-> 500, body |-> None, predict_calls |-> 1, proba_calls |-> 1,
                            logged |-> <<Entry("info", "prediction"), Entry("error", "prediction_error")>>]
                      ELSE [status |-> 200, body |-> r.val, predict_calls |-> 1, proba_calls |-> 1,
                            logged |-> <<Entry("info", "prediction")>>]

\* The try block of predict for one behaviour of the model handle: the
\* status, the body, the number of calls of each model function and the
\* records written with logger (the info record of line 203 precedes the
\* construction of InferenceResponse).
Inference(out, pr) ==
    IF out.tag = "raises"
    THEN [status |-> 500, body |-> None, predict_calls |-> 1, proba_calls |-> 0,
          logged |-> <<Entry("error", "prediction_error")>>]
    ELSE IF pr.tag = "raises"
    THEN [status |-> 500, body |-> None, predict_calls |-> 1, proba_calls |-> 1,
          logged |-> <<Entry("error", "prediction_error")>>]
    ELSE LET prediction == int(out.val)
             confidence == IndexOf(pr.val, prediction)
             prediction_label == Get(SPECIES_MAP, prediction, "unknown")
         IN  IF confidence.tag = "raises"
             THEN [status |-> 500, body |-> None, predict_calls |-> 1, proba_calls |-> 1,
                   logged |-> <<Entry("error", "prediction_error")>>]
             ELSE LET r == InferenceResponse(prediction, prediction_label,
                                             confidence.val, model_version)
                  IN  IF r.tag = "raises"
                      THEN [status |-> 500, body |-> None, predict_calls |-> 1, proba_calls |-> 1,
                            logged |-> <<Entry("info", "prediction"), Entry("error", "prediction_error")>>]
                      ELSE [status |-> 200, body |-> r.val, predict_calls |-> 1, proba_calls |-> 1,
                            logged |-> <<Entry("info", "prediction")>>]

\* ---------------------------------------------------------------- handlers
\* AcceptingRequests for a server that takes requests while the startup
\* handler is still running.
AcceptingRequests_Early == pc # "boot"

\* @app.on_event("startup"): the server handles requests once the startup
\* handler has run to its end.
AcceptingRequests == pc = "serving"

\* The Service State a handler sees while it runs.
Observed == [model |-> model, model_version |-> model_version]

\* A response of POST /predict, with the request it answers and what the
\* model handle did.
PredictResponse(body, status, content, errors, ncalls, nproba, out, pr) ==
    [endpoint |-> "/predict", request |-> body, status |-> status, body |-> content,
     detail |-> errors, predict_calls |-> ncalls, proba_calls |-> nproba,
     predicted |-> out, probabilities |-> pr, observed |-> Observed]

root ==
    /\ AcceptingRequests
    /\ resp = NoResponse
    /\ resp' = [endpoint |-> "/", status |-> 200,
                body |-> [service |-> "Iris Classification API", status |-> "running"],
                observed |-> Observed]
    /\ UNCHANGED <<pc, model, model_version, run_id, load_runs, calls, log>>

\* health_check whose unhealthy answer leaves out status_code=503.
health_check_NoStatusCode ==
    /\ AcceptingRequests
    /\ resp = NoResponse
    /\ resp' = IF model = None
               THEN [endpoint |-> "/health", status |-> 200,
                     body |-> [status |-> "unhealthy", model_loaded |-> FALSE,
                               model_version |-> None],
                     observed |-> Observed]
               ELSE [endpoint |-> "/health", status |-> 200,
                     body |-> [status |-> "healthy", model_loaded |-> TRUE,
                               model_version |-> model_version],
                     observed |-> Observed]
    /\ UNCHANGED <<pc, model, model_version, run_id, load_runs, calls, log>>

health_check ==
    /\ AcceptingRequests
    /\ resp = NoResponse
    /\ resp' = IF model = None
               THEN [endpoint |-> "/health", status |-> 503,
                     body |-> [status |-> "unhealthy", model_loaded |-> FALSE,
                               model_version |-> None],
                     observed |-> Observed]
               ELSE IF model_version = None
               THEN [endpoint |-> "/health", status |-> 500, body |-> None,
                     observed |-> Observed]
               ELSE [endpoint |-> "/health", status |-> 200,
                     body |-> [status |-> "healthy", model_loaded |-> TRUE,
                               model_version |-> model_version],
                     observed |-> Observed]
    /\ UNCHANGED <<pc, model, model_version, run_id, load_runs, calls, log>>

\* The schema documents: the declared constraints of the input fields and of
\* confidence.
get_contract ==
    /\ AcceptingRequests
    /\ resp = NoResponse
    /\ resp' = [endpoint |-> "/contract", status |-> 200,
                body |-> [input_schema |-> [f \in Fields |->
                                [type |-> "number", minimum |-> FeatureMin, maximum |-> FeatureMax]],
                          output_schema |-> [confidence |->
                                [type |-> "number", minimum |-> ConfidenceMin, maximum |-> ConfidenceMax]]],
                observed |-> Observed]
    /\ UNCHANGED <<pc, model, model_version, run_id, load_runs, calls, log>>

\* The number of records predict has written to the log.
PredictRecords ==
    Cardinality({i \in 1..Len(log) : log[i].msg \in {"prediction", "prediction_error"}})

\* The answer to a body that does not reach the handler: 400 when it cannot
\* be read, 500 when the validation errors cannot be rendered, else 422.
Rejected(body, errors) ==
    IF json_loads(body).tag = "raises"
    THEN PredictResponse(body, 400, None, {}, 0, 0, None, None)
    ELSE IF RenderErrors(body, errors).tag = "raises"
    THEN PredictResponse(body, 500, None, errors, 0, 0, None, None)
    ELSE PredictResponse(body, 422, None, errors, 0, 0, None, None)

\* predict whose except clause also drops the loaded model.
predict_ResetOnError ==
    /\ AcceptingRequests
    /\ resp = NoResponse
    /\ \E body \in Bodies :
        LET errors == InferenceRequest(body) IN
        IF json_loads(body).tag = "raises" \/ errors # {}
        THEN /\ resp' = Rejected(body, errors)
             /\ UNCHANGED <<model, model_version, log>>
        ELSE IF model = None
        THEN /\ resp' = PredictResponse(body, 503, None, {}, 0, 0, None, None)
             /\ UNCHANGED <<model, model_version, log>>
        ELSE /\ PredictRecords < MaxLogged
             /\ \E out \in PredictOutcomes, pr \in ProbaOutcomes :
                LET r == Inference(out, pr) IN
                /\ resp' = PredictResponse(body, r.status, r.body, {},
                                           r.predict_calls, r.proba_calls,
                                           out, IF r.proba_calls = 0 THEN None ELSE pr)
                /\ log' = log \o r.logged
                /\ IF r.status = 500
                   THEN model' = None /\ model_version' = None
                   ELSE UNCHANGED <<model, model_version>>
    /\ UNCHANGED <<pc, run_id, load_runs, calls>>

\* POST /predict: the body is read and validated before the handler runs;
\* the handler answers 503 without a model and else runs the try block.
predict ==
    /\ AcceptingRequests
    /\ resp = NoResponse
    /\ \E body \in Bodies :
        LET errors == InferenceRequest(body) IN
        IF json_loads(body).tag = "raises" \/ errors # {}
        THEN /\ resp' = Rejected(body, errors)
             /\ UNCHANGED log
        ELSE IF model = None
        THEN /\ resp' = PredictResponse(body, 503, None, {}, 0, 0, None, None)
             /\ UNCHANGED log
        ELSE /\ PredictRecords < MaxLogged
             /\ \E out \in PredictOutcomes, pr \in ProbaOutcomes :
                LET r == Inference(out, pr) IN
                /\ resp' = PredictResponse(body, r.status, r.body, {},
                                           r.predict_calls, r.proba_calls,
                                           out, IF r.proba_calls = 0 THEN None ELSE pr)
                /\ log' = log \o r.logged
    /\ UNCHANGED <<pc, model, model_version, run_id, load_runs, calls>>

\* uvicorn.run: the response goes out and the server takes the next request.
SendResponse ==
    /\ resp # NoResponse
    /\ resp' = NoResponse
    /\ UNCHANGED <<pc, model, model_version, run_id, load_runs, calls, log>>

Next ==
    \/ startup_event
    \/ load_model_from_mlflow
    \/ root
    \/ health_check
    \/ get_contract
    \/ predict
    \/ SendResponse

Spec == Init /\ [][Next]_vars

\* ================================================================== claims
\* The collaborator calls of load_model_from_mlflow: those after
\* startup_event's set_tracking_uri.
rcalls == SubSeq(calls, 2, Len(calls))
Latest == Str(<<"l", "a", "t", "e", "s", "t">>)

\* Both globals set or both None.
PairConsistent(m, v) == (m = None) <=> (v = None)

\* The positions between the assignment of model and the assignment of
\* model_version.
BetweenAssignments == pc \in {"set_latest", "set_run_version"}

\* load_model_from_mlflow returned normally / raised.
ResolutionSucceeded == \E i \in 1..Len(log) : log[i] = Entry("info", "ready")
ResolutionFailed == \E i \in 1..Len(log) : log[i] = Entry("error", "startup_failed")

\* C1 as stated: in every reachable state, also while load_model_from_mlflow
\* runs, model and model_version are both set or both None.
C1_PairInEveryState == PairConsistent(model, model_version)

\* C1 amended: model and model_version are both set or both None in every
\* state except the one between the two assignments of a successful load,
\* where model is set and model_version is still None.
C1_PairOutsideAssignment ==
    /\ ~BetweenAssignments => PairConsistent(model, model_version)
    /\ BetweenAssignments => model # None /\ model_version = None

C1_Witness ==
    /\ pc = "serving"
    /\ model = Loaded(RunUri(RunId(1)))
    /\ model_version # None

\* C2: model resolution runs exactly once and is over before a /predict or
\* /health handler reads the Service State, and what the handler reads is
\* the populated pair or the empty pair.
C2_ResolutionBeforeReads ==
    /\ load_runs <= 1
    /\ resp.endpoint \in {"/predict", "/health"} =>
        /\ load_runs = 1
        /\ pc = "serving"
        /\ ResolutionSucceeded \/ ResolutionFailed
        /\ PairConsistent(resp.observed.model, resp.observed.model_version)
        /\ resp.observed.model # None <=> ResolutionSucceeded

C2_Witness ==
    /\ resp.endpoint = "/health"
    /\ resp.observed.model # None
    /\ resp.observed.model_version # None
\* The request carries all four features, each a number in [0,10].
AllInRange(body) ==
    /\ body.present
    /\ \A f \in Fields :
        /\ body.features[f].kind \in {"num", "numstr"}
        /\ body.features[f].num >= 0
        /\ body.features[f].num <= 100

\* The request has no "features", or a field is missing, is not a number,
\* is below 0 or is above 10 (1e999 and an integer of thousands of digits
\* are numbers above 10).
FailsValidation(body) ==
    \/ ~body.present
    \/ \E f \in Fields :
        \/ body.features[f].kind = "absent"
        \/ body.features[f].kind = "text"
        \/ body.features[f].kind \in {"num", "numstr"} /\ body.features[f].num < 0
        \/ body.features[f].kind \in {"num", "numstr"} /\ body.features[f].num > 100
        \/ body.features[f].kind \in {"inf", "huge"}

\* The model handle behaved as a three-class classifier: an index in
\* {0,1,2} and a three-entry vector of probabilities.
WellFormed(r) ==
    /\ r.predicted # None /\ r.predicted.tag = "returns"
    /\ r.probabilities # None /\ r.probabilities.tag = "returns"
    /\ r.predicted.val \in {0, 10, 20}
    /\ Len(r.probabilities.val) = 3
    /\ \A i \in 1..3 : r.probabilities.val[i] >= 0 /\ r.probabilities.val[i] <= 100

\* C3 as stated: a request with all four features in [0,10] gets 200 with
\* prediction in {0,1,2} and confidence in [0,1], or 503 when no model is
\* loaded, whatever the model handle does.
C3_ValidGets200Or503 ==
    (resp.endpoint = "/predict" /\ AllInRange(resp.request)) =>
        \/ /\ resp.status = 200
           /\ resp.body.prediction \in {0, 1, 2}
           /\ resp.body.confidence >= 0 /\ resp.body.confidence <= 100
        \/ resp.status = 503 /\ resp.observed.model = None

\* C3 amended: a request with all four features in [0,10] is never answered
\* 422: it gets 503 exactly when no model is loaded, 200 with confidence in
\* [0,1] and the class index the model returned, truncated to an integer
\* (so in {0,1,2} for a three-class model), or 500 when inference fails; a model that behaves as
\* a three-class classifier always gets 200.
C3_ValidNever422 ==
    (resp.endpoint = "/predict" /\ AllInRange(resp.request)) =>
        /\ resp.status \in {200, 500, 503}
        /\ resp.status = 503 <=> resp.observed.model = None
        /\ resp.status = 200 =>
            /\ resp.body.confidence >= 0 /\ resp.body.confidence <= 100
            /\ resp.body.prediction * 10 <= resp.predicted.val
            /\ resp.predicted.val < (resp.body.prediction + 1) * 10
        /\ (resp.observed.model # None /\ WellFormed(resp)) =>
            resp.status = 200 /\ resp.body.prediction \in {0, 1, 2}

C3_Witness ==
    /\ resp.endpoint = "/predict"
    /\ AllInRange(resp.request)
    /\ resp.request.features["sepal_length"] = Raw("num", 0)
    /\ resp.request.features["petal_width"] = Raw("num", 100)
    /\ resp.status = 200
    /\ resp.body.prediction = 2

\* C4: a request that fails validation gets 422 whether or not a model is
\* loaded, and neither model function is called for it.
C4_InvalidGets422 ==
    (resp.endpoint = "/predict" /\ FailsValidation(resp.request)) =>
        /\ resp.status = 422
        /\ resp.predict_calls = 0
        /\ resp.proba_calls = 0

\* C5: /health answers model_loaded true exactly when the resolution
\* succeeded, with 200 exactly then, and otherwise 503, "unhealthy" and a
\* null model_version.
C5_HealthReflectsResolution ==
    resp.endpoint = "/health" =>
        /\ resp.status \in {200, 503}
        /\ resp.body.model_loaded <=> ResolutionSucceeded
        /\ resp.status = 200 <=> resp.body.model_loaded
        /\ resp.status # 200 =>
            /\ resp.status = 503
            /\ resp.body.status = "unhealthy"
            /\ resp.body.model_version = None

C5_Witness ==
    /\ resp.endpoint = "/health"
    /\ resp.status = 503
    /\ ResolutionFailed

\* C6: in a 200 answer of /predict the label is one of the three species or
\* "unknown", it is "unknown" exactly for an index outside {0,1,2}, and
\* index 0 is setosa, 1 versicolor, 2 virginica.
C6_LabelOfIndex ==
    (resp.endpoint = "/predict" /\ resp.status = 200) =>
        /\ resp.body.prediction_label \in {"setosa", "versicolor", "virginica", "unknown"}
        /\ resp.body.prediction_label = "unknown" <=> resp.body.prediction \notin {0, 1, 2}
        /\ resp.body.prediction = 0 => resp.body.prediction_label = "setosa"
        /\ resp.body.prediction = 1 => resp.body.prediction_label = "versicolor"
        /\ resp.body.prediction = 2 => resp.body.prediction_label = "virginica"

C6_Witness ==
    /\ resp.endpoint = "/predict"
    /\ resp.status = 200
    /\ resp.body.prediction = 3
    /\ resp.body.prediction_label = "unknown"
\* C7: with a model loaded, a valid request for which the class-index
\* function returns an index outside {0,1,2} (and predict_proba returns a
\* vector of probabilities) is answered 200 with the label "unknown".
C7_UnknownIndexAnswered ==
    (/\ resp.endpoint = "/predict"
     /\ AllInRange(resp.request)
     /\ resp.observed.model # None
     /\ resp.predicted.tag = "returns"
     /\ resp.predicted.val % 10 = 0
     /\ resp.predicted.val \div 10 \notin {0, 1, 2}
     /\ resp.probabilities.tag = "returns"
     /\ \A i \in 1..Len(resp.probabilities.val) :
            resp.probabilities.val[i] >= 0 /\ resp.probabilities.val[i] <= 100)
    => (resp.status = 200 /\ resp.body.prediction_label = "unknown")

\* C8: when both strategies failed the process serves on with the Service
\* State empty: / and /contract answer 200, a valid /predict answers 503 and
\* calls neither model function.
C8_DegradedMode ==
    ResolutionFailed =>
        /\ pc = "serving"
        /\ model = None /\ model_version = None
        /\ resp.endpoint \in {"/", "/contract"} => resp.status = 200
        /\ (resp.endpoint = "/predict" /\ AllInRange(resp.request)) =>
            /\ resp.status = 503
            /\ resp.predict_calls = 0
            /\ resp.proba_calls = 0

C8_Witness ==
    /\ ResolutionFailed
    /\ Len(rcalls) = 3
    /\ resp.endpoint = "/predict"
    /\ AllInRange(resp.request)
    /\ resp.status = 503

\* C9: after startup_event has set the tracking URI, the first collaborator
\* call of the resolver is the registry load; when it succeeds
\* model_version is "latest" and nothing of the secondary strategy is
\* called; the secondary strategy is attempted exactly when the registry
\* load failed, so a terminal failure always follows a secondary attempt.
C9_RegistryFirst ==
    /\ Len(calls) >= 1 => calls[1].fn = "set_tracking_uri"
    /\ Len(rcalls) >= 1 => rcalls[1].fn = "load_model" /\ rcalls[1].arg = RegistryUri
    /\ (Len(rcalls) >= 1 /\ rcalls[1].result = TRUE) =>
        /\ Len(rcalls) = 1
        /\ ~ResolutionFailed
        /\ pc = "serving" => model_version = Latest /\ ResolutionSucceeded
    /\ Len(rcalls) >= 2 => rcalls[1].result = FALSE
    /\ (pc = "serving" /\ rcalls[1].result = FALSE) =>
        Len(rcalls) >= 2 /\ rcalls[2].fn = "get_experiment_by_name"
    /\ ResolutionFailed => Len(rcalls) >= 2

C9_Witness ==
    /\ pc = "serving"
    /\ Len(rcalls) = 4
    /\ rcalls[1].result = FALSE
    /\ rcalls[4].fn = "load_model"
    /\ rcalls[4].result = TRUE
    /\ model_version # None /\ model_version # Latest

\* C10: the Service State starts empty; model and model_version are each
\* written only by the resolver and only from None to a value, so at most
\* once and never back to None; no step that answers or sends a request
\* changes either.
C10_WrittenOnce ==
    /\ model = None /\ model_version = None
    /\ [][/\ model' # model =>
                model = None /\ model' # None /\ pc \in {"load_registry", "load_run"}
          /\ model_version' # model_version =>
                /\ model_version = None /\ model_version' # None
                /\ pc \in {"set_latest", "set_run_version"}
          /\ resp' # resp => model' = model /\ model_version' = model_version]_vars

C10_Witness ==
    /\ resp.endpoint = "/predict"
    /\ resp.status = 500
    /\ resp.predict_calls = 1
    /\ model = Loaded(RegistryUri)
    /\ model_version = Latest
\* C11: with a model loaded, a valid request for which predict or
\* predict_proba raises is answered 500, and each of the two model
\* functions is called at most once for it: predict once, predict_proba
\* once or, when predict raised, not at all.
C11_FailureIs500NoRetry ==
    (/\ resp.endpoint = "/predict"
     /\ AllInRange(resp.request)
     /\ resp.observed.model # None
     /\ resp.predicted.tag = "raises" \/ resp.probabilities.tag = "raises")
    => /\ resp.status = 500
       /\ resp.predict_calls = 1
       /\ resp.proba_calls <= 1
       /\ resp.predicted.tag = "raises" => resp.proba_calls = 0

C11_Witness ==
    /\ resp.endpoint = "/predict"
    /\ AllInRange(resp.request)
    /\ resp.observed.model # None
    /\ resp.predicted.tag = "returns"
    /\ resp.probabilities.tag = "raises"
    /\ resp.status = 500
    /\ resp.proba_calls = 1
\* The secondary strategy was entered: the registry load failed.
SecondaryEntered == Len(rcalls) >= 1 /\ rcalls[1].result = FALSE

\* The Service State is empty after a terminal failure of the resolver, and
\* no later collaborator call was made.
TerminalAfter(n) ==
    /\ Len(rcalls) = n
    /\ ResolutionFailed
    /\ pc = "serving"
    /\ model = None /\ model_version = None

\* The run of a non-empty experiment with the latest start time.
MostRecent(rs) == CHOOSE r \in rs : \A o \in rs : o.start_time <= r.start_time

\* C12: in the secondary strategy a missing experiment, an experiment
\* without runs and a failing load of the run's artifact are each a terminal
\* failure that leaves the Service State empty; when the experiment exists,
\* has runs and the load succeeds, the artifact loaded is that of the single
\* most recent run and model_version is the first 7 characters of that
\* run's identifier.
C12_SecondaryStrategy ==
    SecondaryEntered =>
        /\ (Len(rcalls) >= 2 /\ rcalls[2].result = "none") => TerminalAfter(2)
        /\ (Len(rcalls) >= 3 /\ rcalls[3].result = Returns(<<>>)) => TerminalAfter(3)
        /\ (Len(rcalls) >= 4 /\ rcalls[4].result = FALSE) => TerminalAfter(4)
        /\ ResolutionFailed => model = None /\ model_version = None
        /\ Len(rcalls) >= 4 =>
            /\ rcalls[2].result = "found"
            /\ rcalls[3].result.tag = "returns"
            /\ Len(rcalls[3].result.val) = 1
            /\ rcalls[3].result.val[1] = MostRecent(rcalls[3].arg)
            /\ rcalls[4].fn = "load_model"
            /\ rcalls[4].arg = RunUri(MostRecent(rcalls[3].arg).run_id)
        /\ (Len(rcalls) >= 4 /\ rcalls[4].result = TRUE /\ pc = "serving") =>
            /\ ResolutionSucceeded
            /\ model = Loaded(RunUri(MostRecent(rcalls[3].arg).run_id))
            /\ model_version = Str([i \in 1..7 |-> MostRecent(rcalls[3].arg).run_id[i]])
        /\ (pc = "serving" /\ Len(rcalls) >= 3 /\ rcalls[3].result.tag = "returns"
                /\ rcalls[3].result.val # <<>>) => Len(rcalls) = 4

C12_Witness ==
    /\ pc = "serving"
    /\ Len(rcalls) = 4
    /\ rcalls[3].arg = {[run_id |-> RunId(1), start_time |-> 2],
                       [run_id |-> RunId(2), start_time |-> 1]}
    /\ rcalls[4].result = TRUE
    /\ model = Loaded(RunUri(RunId(1)))
    /\ model_version # None
\* C13: in a 200 answer of /predict, confidence is the entry of the
\* probability vector at the predicted index (a negative index counts from
\* the end, as the vector does), also when the largest entry lies at another
\* index.
C13_ConfidenceAtIndex ==
    (resp.endpoint = "/predict" /\ resp.status = 200) =>
        LET vec == resp.probabilities.val
            idx == resp.body.prediction
        IN  /\ resp.probabilities.tag = "returns"
            /\ idx >= 0 => idx < Len(vec) /\ resp.body.confidence = vec[idx + 1]
            /\ idx < 0 => -idx <= Len(vec) /\ resp.body.confidence = vec[Len(vec) + idx + 1]

C13_Witness ==
    /\ resp.endpoint = "/predict"
    /\ resp.status = 200
    /\ resp.probabilities = Returns(<<10, 20, 70>>)
    /\ resp.body.prediction = 0
    /\ resp.body.confidence = 10

\* C14: a 200 answer of /predict or /health carries the model_version held
\* in the Service State when the request is handled, which is "latest" or
\* the first 7 characters of a run identifier, never null.
C14_VersionOfState ==
    (resp.endpoint \in {"/predict", "/health"} /\ resp.status = 200) =>
        /\ resp.body.model_version = resp.observed.model_version
        /\ resp.body.model_version = model_version
        /\ resp.body.model_version # None
        /\ \/ resp.body.model_version = Latest
           \/ \E rid \in RunIds :
                resp.body.model_version = Str([i \in 1..7 |-> rid[i]])

C14_Witness ==
    /\ resp.endpoint = "/predict"
    /\ resp.status = 200
    /\ resp.body.model_version = Str([i \in 1..7 |-> RunId(2)[i]])
====
